---- MODULE Spec2Model ----
(***************************************************************************)
(* Model of app/transcribe/args.py: the command line parser (create_args), *)
(* the merge of the parsed arguments into the configuration store          *)
(* (update_args_config), the batch task dispatcher                         *)
(* (handle_args_batch_tasks, save_api_key) and the audio device binding    *)
(* step (update_audio_devices).                                            *)
(*                                                                         *)
(* Python's None is the empty tuple <<>>; a value v that may be None is    *)
(* carried as <<v>>.  Text is a sequence of one-character strings.         *)
(***************************************************************************)
EXTENDS Integers, Sequences, FiniteSets, TLC

VARIABLES
    argv,              \* the command line: which flags were given, and their values
    args,              \* the argparse.Namespace, None before create_args returns
    step,              \* position of the caller in MainSequence
    status,            \* "running", "exited" (sys.exit) or "raised" (uncaught exception)
    exit_status,       \* the argument of sys.exit, None if it was never called
    exc,               \* the class of the uncaught exception, "" if none
    config,            \* the configuration dict, section -> key -> value
    override_file,     \* content of the override yaml file, None if it does not exist
    files,             \* output path -> text written to it, None if never opened
    stdout,            \* the lines printed, as <<message, argument>>
    calls,             \* calls made on collaborators, as <<object, method, argument>>
    transcription,     \* results and text of the transcribe task, None before it has them
    set_device_calls   \* set_device calls, as <<recorder, index>>

vars == <<argv, args, step, status, exit_status, exc, config, override_file,
          files, stdout, calls, transcription, set_device_calls>>

----------------------------------------------------------------------------
(* Bounds of the model *)

\* device indices run over -1 .. MaxDeviceIndex
MaxDeviceIndex == 1

\* transcribed texts have at most MaxTextLen characters
MaxTextLen == 2

----------------------------------------------------------------------------
(* Values *)

None == <<>>

Some(v) == <<v>>

\* choices of --speech_to_text and its default
SpeechToTextChoices == {"whisper", "whisper.cpp", "deepgram"}

\* choices of --chat-inference-provider
ChatProviderChoices == {"openai", "together"}

\* choices of --model
ModelChoices == {"tiny", "base", "small", "medium", "large-v1", "large-v2",
                 "large-v3", "large"}

\* the default output file of the transcribe task
DefaultOutputFile == "transcription.txt"

\* the path configuration.Config() reports as config_override_file
ConfigOverrideFile == "override.yaml"

\* The caller's order of calls into this module.
MainSequence == <<"create_args", "update_args_config", "handle_args_batch_tasks",
                  "update_audio_devices">>

\* the function the caller calls next, "" once the process has ended
NextCall ==
    IF status = "running" /\ step <= Len(MainSequence) THEN MainSequence[step] ELSE ""

----------------------------------------------------------------------------
(* create_args *)

\* argparse accepts the command line only if every choice option is in its choices
ArgvValid(v) ==
    /\ v.speech_to_text = None \/ v.speech_to_text[1] \in SpeechToTextChoices
    /\ v.chat_inference_provider = None
          \/ v.chat_inference_provider[1] \in ChatProviderChoices
    /\ v.model = None \/ v.model[1] \in ModelChoices

\* The Namespace of a valid command line: an option that was not given takes
\* its default; store_true flags are False when absent.
create_args(v) ==
    [api                     |-> v.api,
     experimental            |-> v.experimental,
     speech_to_text          |-> IF v.speech_to_text = None THEN Some("whisper")
                                 ELSE v.speech_to_text,
     chat_inference_provider |-> IF v.chat_inference_provider = None THEN Some("openai")
                                 ELSE v.chat_inference_provider,
     api_key                 |-> v.api_key,
     save_api_key            |-> v.save_api_key,
     transcribe              |-> v.transcribe,
     output_file             |-> v.output_file,
     model                   |-> IF v.model = None THEN Some("base") ELSE v.model,
     list_devices            |-> v.list_devices,
     mic_device_index        |-> v.mic_device_index,
     speaker_device_index    |-> v.speaker_device_index,
     disable_mic             |-> v.disable_mic,
     disable_speaker         |-> v.disable_speaker]

CreateArgs ==
    /\ NextCall = "create_args"
    /\ IF ArgvValid(argv)
       THEN /\ args' = Some(create_args(argv))
            /\ step' = step + 1
            /\ UNCHANGED <<status, exit_status>>
       ELSE \* parse_args writes the usage and the error to sys.stderr, nothing
            \* to sys.stdout, and exits with status 2
            /\ status' = "exited"
            /\ exit_status' = Some(2)
            /\ UNCHANGED <<args, step>>
    /\ UNCHANGED <<argv, exc, config, override_file, files, stdout, calls,
                   transcription, set_device_calls>>

----------------------------------------------------------------------------
(* update_args_config *)

\* a merge that copies the boolean flags whether they are set or not
update_args_config_CopyFlags(a, c) ==
    LET c1 == IF a.api_key # None
              THEN [c EXCEPT !.OpenAI.api_key = a.api_key[1]] ELSE c
        c2 == IF a.model # None
              THEN [c1 EXCEPT !.OpenAI.local_transcripton_model_file = a.model[1],
                              !.WhisperCpp.local_transcripton_model_file = a.model[1]]
              ELSE [c1 EXCEPT !.OpenAI.local_transcripton_model_file = "base",
                              !.WhisperCpp.local_transcripton_model_file = "base"]
        c3 == [c2 EXCEPT !.General.use_api = a.api]
        c4 == [c3 EXCEPT !.General.disable_mic = a.disable_mic]
        c5 == IF a.mic_device_index # None
              THEN [c4 EXCEPT !.General.mic_device_index = a.mic_device_index[1]] ELSE c4
        c6 == [c5 EXCEPT !.General.disable_speaker = a.disable_speaker]
    IN  IF a.speaker_device_index # None
        THEN [c6 EXCEPT !.General.speaker_device_index = a.speaker_device_index[1]]
        ELSE c6

\* a merge that sets the model file of the OpenAI section only
update_args_config_OneModelKey(a, c) ==
    LET c1 == IF a.api_key # None
              THEN [c EXCEPT !.OpenAI.api_key = a.api_key[1]] ELSE c
        c2 == IF a.model # None
              THEN [c1 EXCEPT !.OpenAI.local_transcripton_model_file = a.model[1]]
              ELSE [c1 EXCEPT !.OpenAI.local_transcripton_model_file = "base"]
        c3 == IF a.api THEN [c2 EXCEPT !.General.use_api = a.api] ELSE c2
        c4 == IF a.disable_mic THEN [c3 EXCEPT !.General.disable_mic = a.disable_mic]
              ELSE c3
        c5 == IF a.mic_device_index # None
              THEN [c4 EXCEPT !.General.mic_device_index = a.mic_device_index[1]] ELSE c4
        c6 == IF a.disable_speaker
              THEN [c5 EXCEPT !.General.disable_speaker = a.disable_speaker] ELSE c5
    IN  IF a.speaker_device_index # None
        THEN [c6 EXCEPT !.General.speaker_device_index = a.speaker_device_index[1]]
        ELSE c6

\* The dict after update_args_config(args, config): the statements in order.
update_args_config(a, c) ==
    LET c1 == IF a.api_key # None
              THEN [c EXCEPT !.OpenAI.api_key = a.api_key[1]] ELSE c
        c2 == IF a.model # None
              THEN [c1 EXCEPT !.OpenAI.local_transcripton_model_file = a.model[1],
                              !.WhisperCpp.local_transcripton_model_file = a.model[1]]
              ELSE [c1 EXCEPT !.OpenAI.local_transcripton_model_file = "base",
                              !.WhisperCpp.local_transcripton_model_file = "base"]
        c3 == IF a.api THEN [c2 EXCEPT !.General.use_api = a.api] ELSE c2
        c4 == IF a.disable_mic THEN [c3 EXCEPT !.General.disable_mic = a.disable_mic]
              ELSE c3
        c5 == IF a.mic_device_index # None
              THEN [c4 EXCEPT !.General.mic_device_index = a.mic_device_index[1]] ELSE c4
        c6 == IF a.disable_speaker
              THEN [c5 EXCEPT !.General.disable_speaker = a.disable_speaker] ELSE c5
    IN  IF a.speaker_device_index # None
        THEN [c6 EXCEPT !.General.speaker_device_index = a.speaker_device_index[1]]
        ELSE c6

UpdateArgsConfig ==
    /\ NextCall = "update_args_config"
    /\ config' = update_args_config(args[1], config)
    /\ step' = step + 1
    /\ UNCHANGED <<argv, args, status, exit_status, exc, override_file, files,
                   stdout, calls, transcription, set_device_calls>>

----------------------------------------------------------------------------
(* update_audio_devices *)

\* the set_device calls of update_audio_devices(global_vars, config), in order
update_audio_devices(c) ==
    (IF ~c.General.disable_mic /\ c.General.mic_device_index # -1
     THEN << <<"user_audio_recorder", c.General.mic_device_index>> >>
     ELSE << >>)
    \o
    (IF ~c.General.disable_speaker /\ c.General.speaker_device_index # -1
     THEN << <<"user_audio_recorder", c.General.speaker_device_index>> >>
     ELSE << >>)

\* the lines update_audio_devices prints, in order
update_audio_devices_prints(c) ==
    (IF ~c.General.disable_mic /\ c.General.mic_device_index # -1
     THEN << <<"[INFO] Override default microphone", "">> >>
     ELSE << >>)
    \o
    (IF ~c.General.disable_speaker /\ c.General.speaker_device_index # -1
     THEN << <<"[INFO] Override default speaker", "">> >>
     ELSE << >>)

UpdateAudioDevices ==
    /\ NextCall = "update_audio_devices"
    /\ set_device_calls' = set_device_calls \o update_audio_devices(config)
    /\ stdout' = stdout \o update_audio_devices_prints(config)
    /\ step' = step + 1
    /\ UNCHANGED <<argv, args, status, exit_status, exc, config, override_file,
                   files, calls, transcription>>

\* The device a recorder is bound to: the index of the last set_device call
\* made on it, None if there was none.
BoundDevice(recorder) ==
    LET on == SelectSeq(set_device_calls, LAMBDA c : c[1] = recorder)
    IN  IF on = << >> THEN None ELSE Some(on[Len(on)][2])

----------------------------------------------------------------------------
(* The override file and the yaml library *)

\* yaml.load(stream, Loader=SafeLoader): a file that is not well-formed yaml
\* raises a YAMLError; an empty document loads as None, a mapping as a dict.
yaml_load(content) ==
    IF ~content.wellformed
    THEN [raised |-> "YAMLError", value |-> None]
    ELSE [raised |-> "", value |-> content.doc]

\* yml.add_override_value(d): the override file is rewritten with the dict d.
add_override_value(d) == Some([wellformed |-> TRUE, doc |-> Some(d)])

\* section s of dict d with key k set to v, the other keys kept (a value of
\* the api_key key is carried as <<v>>, since None can be stored there)
SetKey(d, s, k, v) ==
    [d EXCEPT ![s] = Some([x \in DOMAIN d[s][1] \cup {k} |->
                              IF x = k THEN v ELSE d[s][1][x]])]

----------------------------------------------------------------------------
(* save_api_key *)

\* What save_api_key(args) does given the override file: how it ends
\* ("returned", "exited" or "raised"), the exit status or exception, the file
\* afterwards, the lines printed and whether the override layer was persisted.
SaveOutcome(how, code, e, file, out, persisted) ==
    [how |-> how, exit_status |-> code, exc |-> e, file |-> file, out |-> out,
     persisted |-> persisted]

save_api_key(a, file) ==
    IF file = None
    THEN \* open(yml.config_override_file, mode='r') fails
         SaveOutcome("raised", None, "FileNotFoundError", file, << >>, FALSE)
    ELSE
    LET loaded == yaml_load(file[1])
        altered_config == loaded.value
    IN  IF loaded.raised = "ImportError"
        THEN \* the except clause: report and sys.exit(1)
             SaveOutcome("exited", Some(1), "", file,
                         << <<"Failed to load yaml file", ConfigOverrideFile>>,
                            <<"Error", loaded.raised>> >>, FALSE)
        ELSE IF loaded.raised # ""
        THEN \* any other exception of yaml.load leaves save_api_key uncaught
             SaveOutcome("raised", None, loaded.raised, file, << >>, FALSE)
        ELSE IF altered_config = None
        THEN \* None['OpenAI']
             SaveOutcome("raised", None, "TypeError", file, << >>, FALSE)
        ELSE IF "OpenAI" \notin DOMAIN altered_config[1]
        THEN SaveOutcome("raised", None, "KeyError", file, << >>, FALSE)
        ELSE IF altered_config[1].OpenAI = None
        THEN \* None['api_key'] = ...
             SaveOutcome("raised", None, "TypeError", file, << >>, FALSE)
        ELSE SaveOutcome("returned", None, "",
                         add_override_value(
                             SetKey(altered_config[1], "OpenAI", "api_key", a.save_api_key)),
                         << <<"Saved API Key to", ConfigOverrideFile>> >>, TRUE)

----------------------------------------------------------------------------
(* handle_args_batch_tasks *)

\* a dispatcher that tests save_api_key before list_devices
BatchTask_SaveFirst(a) ==
    IF a.save_api_key # None THEN "save_api_key"
    ELSE IF a.list_devices THEN "list_devices"
    ELSE IF a.transcribe # None THEN "transcribe"
    ELSE "return"

\* a dispatcher that takes the transient api_key for the key to save
BatchTask_TransientKey(a) ==
    IF a.list_devices THEN "list_devices"
    ELSE IF a.api_key # None THEN "save_api_key"
    ELSE IF a.transcribe # None THEN "transcribe"
    ELSE "return"

\* the branch handle_args_batch_tasks takes: its three tests in order
BatchTask(a) ==
    IF a.list_devices THEN "list_devices"
    ELSE IF a.save_api_key # None THEN "save_api_key"
    ELSE IF a.transcribe # None THEN "transcribe"
    ELSE "return"

\* the first statement of handle_args_batch_tasks, on every branch
ParamsCall == <<"interactions", "params", "">>

ListDevices ==
    /\ NextCall = "handle_args_batch_tasks"
    /\ BatchTask(args[1]) = "list_devices"
    /\ stdout' = Append(stdout,
                        <<"List all audio drivers and devices on this machine", "">>)
    /\ calls' = calls \o <<ParamsCall, <<"ar", "print_detailed_audio_info", "">> >>
    /\ status' = "exited"
    /\ exit_status' = Some(0)
    /\ UNCHANGED <<argv, args, step, exc, config, override_file, files,
                   transcription, set_device_calls>>

SaveKey ==
    /\ NextCall = "handle_args_batch_tasks"
    /\ BatchTask(args[1]) = "save_api_key"
    /\ LET r == save_api_key(args[1], override_file)
       IN  /\ override_file' = r.file
           /\ stdout' = stdout \o r.out
           /\ calls' = calls \o <<ParamsCall, <<"configuration", "Config", "">> >>
                             \o (IF r.persisted
                                 THEN << <<"yml", "add_override_value", "">> >>
                                 ELSE << >>)
           /\ exc' = r.exc
           \* save_api_key returned: sys.exit(0)
           /\ status' = IF r.how = "returned" THEN "exited" ELSE r.how
           /\ exit_status' = IF r.how = "returned" THEN Some(0) ELSE r.exit_status
    /\ UNCHANGED <<argv, args, step, config, files, transcription, set_device_calls>>

\* the paths at which os.path.getsize finds a file
ExistingFiles == {"sample.wav"}

\* the path convert_wav_to_16khz_format returns for a wav file
convert_wav_to_16khz_format(path) == "sample.16khz.wav"

\* the texts process_response may return
Texts == UNION {[1..n -> {"a", "\n"}] : n \in 0..MaxTextLen}

\* output_file = args.output_file if args.output_file is not None else ...
OutputFile(a) == IF a.output_file # None THEN a.output_file[1] ELSE DefaultOutputFile

\* a write that leaves out the newline
Written_NoNewline(text) == text

\* what f.write(f"{text}\n") writes
Written(text) == Append(text, "\n")

\* results is not None and len(text) > 0
TranscriptionOk(results, text) == results # None /\ Len(text) > 0

Transcribe ==
    /\ NextCall = "handle_args_batch_tasks"
    /\ BatchTask(args[1]) = "transcribe"
    /\ LET a == args[1]
           output_file == OutputFile(a)
           converting == <<"Converting the audio file", a.transcribe[1]>>
       IN  IF a.transcribe[1] \notin ExistingFiles
           THEN \* os.path.getsize raises
                /\ stdout' = Append(stdout, converting)
                /\ calls' = calls \o <<ParamsCall, <<"os.path", "getsize", a.transcribe[1]>> >>
                /\ status' = "raised"
                /\ exc' = "FileNotFoundError"
                /\ UNCHANGED <<exit_status, files, transcription>>
           ELSE
           \E results \in {None, Some("response")}, text \in Texts :
             LET file_path == IF a.speech_to_text = Some("whisper.cpp")
                              THEN convert_wav_to_16khz_format(a.transcribe[1])
                              ELSE a.transcribe[1]
                 printed == <<converting, <<"file size", a.transcribe[1]>>,
                              <<"Text output will be produced in", output_file>> >>
             IN  /\ calls' = calls
                        \o <<ParamsCall, <<"os.path", "getsize", a.transcribe[1]>> >>
                        \o (IF a.speech_to_text = Some("whisper.cpp")
                            THEN << <<"transcriber", "convert_wav_to_16khz_format",
                                      a.transcribe[1]>> >>
                            ELSE << >>)
                        \o << <<"stt_model", "get_transcription", file_path>>,
                              <<"stt_model", "process_response", "">> >>
                 /\ transcription' = Some([results |-> results, text |-> text])
                 /\ status' = "exited"
                 /\ exc' = exc
                 /\ IF TranscriptionOk(results, text)
                    THEN /\ files' = [files EXCEPT ![output_file] = Some(Written(text))]
                         /\ stdout' = stdout \o printed \o << <<"Complete!", "">> >>
                         /\ exit_status' = Some(0)
                    ELSE /\ files' = files
                         /\ stdout' = stdout \o printed
                                \o << <<"Error during Transcription!", "">>,
                                      <<"Please ensure is an audio file", a.transcribe[1]>> >>
                         /\ exit_status' = Some(1)
    /\ UNCHANGED <<argv, args, step, config, override_file, set_device_calls>>

\* no batch task: handle_args_batch_tasks returns to its caller
Fallthrough ==
    /\ NextCall = "handle_args_batch_tasks"
    /\ BatchTask(args[1]) = "return"
    /\ calls' = Append(calls, ParamsCall)
    /\ step' = step + 1
    /\ UNCHANGED <<argv, args, status, exit_status, exc, config, override_file,
                   files, stdout, transcription, set_device_calls>>

----------------------------------------------------------------------------
(* Initial states *)

\* the device indices of command lines and stores; -1 is the store's "unset"
DeviceIndices == -1..MaxDeviceIndex

\* the keys given on the command line
Keys == {"K1", "K2"}

\* a store as the caller loads it: every key present
Store(api_key, openai_model, whispercpp_model, use_api, dm, mi, ds, si) ==
    [OpenAI     |-> [api_key |-> api_key,
                     local_transcripton_model_file |-> openai_model],
     WhisperCpp |-> [local_transcripton_model_file |-> whispercpp_model],
     General    |-> [use_api |-> use_api,
                     disable_mic |-> dm, mic_device_index |-> mi,
                     disable_speaker |-> ds, speaker_device_index |-> si]]

DefaultStore == Store("K0", "base", "base", FALSE, FALSE, -1, FALSE, -1)

\* a command line with no option given
NoArgv ==
    [api |-> FALSE, experimental |-> FALSE, speech_to_text |-> None,
     chat_inference_provider |-> None, api_key |-> None, save_api_key |-> None,
     transcribe |-> None, output_file |-> None, model |-> None,
     list_devices |-> FALSE, mic_device_index |-> None,
     speaker_device_index |-> None, disable_mic |-> FALSE, disable_speaker |-> FALSE]

\* the override file as a previous run or the user left it
OverrideFiles ==
    { None,
      Some([wellformed |-> FALSE, doc |-> None]),
      Some([wellformed |-> TRUE, doc |-> None]),
      Some([wellformed |-> TRUE,
            doc |-> Some([General |-> Some([disable_mic |-> TRUE])])]),
      Some([wellformed |-> TRUE, doc |-> Some([OpenAI |-> None])]),
      Some([wellformed |-> TRUE,
            doc |-> Some([OpenAI |-> Some([api_key |-> Some("K0")])])]),
      Some([wellformed |-> TRUE,
            doc |-> Some([OpenAI  |-> Some([organization |-> "org"]),
                          General |-> Some([disable_mic |-> TRUE])])]) }

OutputPaths == {DefaultOutputFile, "out.txt"}

InitCommon ==
    /\ args = None
    /\ step = 1
    /\ status = "running"
    /\ exit_status = None
    /\ exc = ""
    /\ files = [p \in OutputPaths |-> None]
    /\ stdout = << >>
    /\ calls = << >>
    /\ transcription = None
    /\ set_device_calls = << >>

\* Runs that merge the command line into a store and bind the devices.
InitMerge ==
    /\ InitCommon
    /\ override_file = Some([wellformed |-> TRUE,
                             doc |-> Some([OpenAI |-> Some([api_key |-> Some("K0")])])])
    /\ \E api \in BOOLEAN, key \in {None, Some("K1")},
          model \in {None} \cup {Some(m) : m \in ModelChoices \cup {"huge"}},
          mi \in {None} \cup {Some(i) : i \in DeviceIndices},
          si \in {None} \cup {Some(i) : i \in DeviceIndices},
          dm \in BOOLEAN, ds \in BOOLEAN :
         argv = [NoArgv EXCEPT !.api = api, !.api_key = key, !.model = model,
                               !.mic_device_index = mi, !.speaker_device_index = si,
                               !.disable_mic = dm, !.disable_speaker = ds]
    /\ \E models \in {<<"base", "base">>, <<"large", "small">>},
          use_api \in BOOLEAN, dm \in BOOLEAN, ds \in BOOLEAN,
          mi \in DeviceIndices, si \in DeviceIndices :
         config = Store("K0", models[1], models[2], use_api, dm, mi, ds, si)

\* Runs that ask for batch tasks.
InitBatch ==
    /\ InitCommon
    /\ override_file \in OverrideFiles
    /\ config = DefaultStore
    /\ \E list \in BOOLEAN, save \in {None} \cup {Some(k) : k \in Keys},
          key \in {None} \cup {Some(k) : k \in Keys},
          t \in {None, Some("sample.wav"), Some("missing.wav")},
          o \in {None, Some("out.txt")},
          stt \in {None, Some("whisper.cpp"), Some("deepgram")} :
         argv = [NoArgv EXCEPT !.list_devices = list, !.save_api_key = save,
                               !.api_key = key, !.transcribe = t,
                               !.output_file = o, !.speech_to_text = stt]

\* Under InitMerge no batch task is asked for, so of the branches of
\* handle_args_batch_tasks only the return to the caller can be taken.
NextMerge == CreateArgs \/ UpdateArgsConfig \/ Fallthrough \/ UpdateAudioDevices

SpecMerge == InitMerge /\ [][NextMerge]_vars

Next ==
    \/ CreateArgs
    \/ UpdateArgsConfig
    \/ ListDevices
    \/ SaveKey
    \/ Transcribe
    \/ Fallthrough
    \/ UpdateAudioDevices

Spec == InitBatch /\ [][Next]_vars

----------------------------------------------------------------------------
(* What a run shows of the branch handle_args_batch_tasks took *)

Called(call) == \E i \in 1..Len(calls) : calls[i] = call

Printed(line) == \E i \in 1..Len(stdout) : stdout[i] = line

\* handle_args_batch_tasks was entered
Dispatched == Called(ParamsCall)

\* the device listing ran
ListRan == Called(<<"ar", "print_detailed_audio_info", "">>)

\* save_api_key ran
SaveRan == Called(<<"configuration", "Config", "">>)

\* the transcribe task ran
TranscribeRan ==
    \E i \in 1..Len(calls) : calls[i][1] = "os.path" /\ calls[i][2] = "getsize"

\* the api_key a fresh load of the override file yields; <<"missing">> if the
\* file, the section or the key is not there
FreshApiKey ==
    IF override_file = None THEN <<"missing">>
    ELSE LET v == yaml_load(override_file[1])
         IN  IF v.raised # "" \/ v.value = None THEN <<"missing">>
             ELSE IF "OpenAI" \notin DOMAIN v.value[1] THEN <<"missing">>
             ELSE IF v.value[1].OpenAI = None THEN <<"missing">>
             ELSE IF "api_key" \notin DOMAIN v.value[1].OpenAI[1] THEN <<"missing">>
             ELSE <<"key", v.value[1].OpenAI[1].api_key>>

----------------------------------------------------------------------------
(* Claims about the batch task dispatcher, checked under Spec *)

\* C1: once handle_args_batch_tasks has run, exactly the requested task of
\* highest priority ran (list_devices, then save_api_key, then transcribe) and
\* none of lower priority; the process has ended (by sys.exit or by an
\* exception nothing in this module catches) if a task was requested, and the
\* function returned to its caller only if none was.
C1_OneTaskByPriority ==
    Dispatched =>
        LET a == args[1]
        IN  /\ ListRan <=> a.list_devices
            /\ SaveRan <=> (~a.list_devices /\ a.save_api_key # None)
            /\ TranscribeRan <=> (/\ ~a.list_devices
                                  /\ a.save_api_key = None
                                  /\ a.transcribe # None)
            /\ (status = "running") <=> (/\ ~a.list_devices
                                         /\ a.save_api_key = None
                                         /\ a.transcribe = None)
            /\ (status = "running") => (exit_status = None /\ step > 3)

\* list_devices and save_api_key and transcribe all given: only the listing ran
C1_Witness ==
    /\ Dispatched
    /\ args[1].list_devices /\ args[1].save_api_key # None /\ args[1].transcribe # None
    /\ ListRan /\ ~SaveRan /\ ~TranscribeRan
    /\ status = "exited" /\ exit_status = Some(0)

\* C2: after the save-API-key action on an override file that parses, the
\* process has exited with status 0 and a fresh load of the override file
\* yields OpenAI.api_key equal to the key that was given.
C2_SavedKeyRoundTrip ==
    (SaveRan /\ override_file # None /\ override_file[1].wellformed) =>
        /\ status = "exited"
        /\ exit_status = Some(0)
        /\ Called(<<"yml", "add_override_value", "">>)
        /\ FreshApiKey = <<"key", args[1].save_api_key>>

\* C3: after the save-API-key action on an override file that does not parse,
\* the failing path and the error were printed, the process has exited with
\* status 1, and the file was not written.
C3_ParseFailureReported ==
    (SaveRan /\ override_file # None /\ ~override_file[1].wellformed) =>
        /\ Printed(<<"Failed to load yaml file", ConfigOverrideFile>>)
        /\ \E i \in 1..Len(stdout) : stdout[i][1] = "Error"
        /\ status = "exited"
        /\ exit_status = Some(1)
        /\ ~Called(<<"yml", "add_override_value", "">>)

\* the transcribe task could not produce a non-empty result: the file is
\* missing, or the inference returned no result, or the text is empty
NoTranscriptionResult ==
    \/ args[1].transcribe[1] \notin ExistingFiles
    \/ /\ transcription # None
       /\ transcription[1].results = None \/ transcription[1].text = << >>

\* C4: after a transcribe task that could not produce a non-empty result, the
\* 'ensure it is an audio file' diagnostic was printed, the process has
\* exited with status 1, and no output file was opened.
C4_FailedTranscriptionReported ==
    (TranscribeRan /\ NoTranscriptionResult) =>
        /\ Printed(<<"Please ensure is an audio file", args[1].transcribe[1]>>)
        /\ status = "exited"
        /\ exit_status = Some(1)
        /\ \A p \in DOMAIN files : files[p] = None

\* C8: after a transcribe task whose result is non-empty, the text followed
\* by one newline is in the file named by output_file, or in
\* transcription.txt if the option was not given, no other file was written
\* and the process has exited with status 0.
C8_TranscriptionWritten ==
    (/\ TranscribeRan
     /\ transcription # None
     /\ transcription[1].results # None
     /\ transcription[1].text # << >>) =>
        LET path == IF args[1].output_file = None THEN "transcription.txt"
                    ELSE args[1].output_file[1]
        IN  /\ files[path] = Some(transcription[1].text \o <<"\n">>)
            /\ \A p \in DOMAIN files \ {path} : files[p] = None
            /\ status = "exited"
            /\ exit_status = Some(0)

\* a text ending in a newline was written to out.txt, through whisper.cpp
C8_Witness ==
    /\ TranscribeRan
    /\ args[1].output_file = Some("out.txt")
    /\ args[1].speech_to_text = Some("whisper.cpp")
    /\ transcription = Some([results |-> Some("response"), text |-> <<"a", "\n">>])
    /\ files["out.txt"] = Some(<<"a", "\n", "\n">>)
    /\ files["transcription.txt"] = None
    /\ exit_status = Some(0)

\* C9: a step changes the override file only if it is the save-API-key
\* action, and then the file holds the key to save; the override layer is
\* persisted at most once; and in a run without save_api_key the override
\* file never holds the transient api_key.
C9_OnlySaveWritesOverride ==
    [][/\ (override_file' # override_file) =>
            /\ NextCall = "handle_args_batch_tasks"
            /\ ~args[1].list_devices
            /\ args[1].save_api_key # None
            /\ Called(<<"yml", "add_override_value", "">>)' 
       /\ Cardinality({i \in 1..Len(calls') :
                          calls'[i] = <<"yml", "add_override_value", "">>}) <= 1
       /\ (args' # None /\ args'[1].save_api_key = None /\ args'[1].api_key # None) =>
            FreshApiKey' # <<"key", args'[1].api_key>>]_vars

\* a run with a transient key and no key to save has ended: the store in
\* memory holds the key, the override file holds the old one
C9_Witness ==
    /\ args # None
    /\ args[1].api_key = Some("K1") /\ args[1].save_api_key = None
    /\ args[1].transcribe # None
    /\ status = "exited"
    /\ config.OpenAI.api_key = "K1"
    /\ FreshApiKey = <<"key", Some("K0")>>

----------------------------------------------------------------------------
(* Claims about the merge and the device binding, checked under SpecMerge *)

\* C5: after update_args_config both model file keys equal the model given
\* on the command line, and "base" if none was given.
C5_ModelKeys ==
    step > 2 =>
        LET expected == IF argv.model = None THEN "base" ELSE argv.model[1]
        IN  /\ config.OpenAI.local_transcripton_model_file = expected
            /\ config.WhisperCpp.local_transcripton_model_file = expected

\* the model flag was given and both keys hold it
C5_Witness ==
    /\ step > 2
    /\ argv.model = Some("large-v2")
    /\ config.OpenAI.local_transcripton_model_file = "large-v2"
    /\ config.WhisperCpp.local_transcripton_model_file = "large-v2"

\* the keys of the store other than the two model file keys
SameButModel(c, d) ==
    /\ c.OpenAI.api_key = d.OpenAI.api_key
    /\ c.General = d.General

\* C6: update_args_config leaves a key as it was when the field of the
\* request is absent or false, never clears a flag that is true in the
\* store, and with no field set changes nothing but the model file keys.
C6_MergeFrame ==
    [][NextCall = "update_args_config" =>
        LET a == args[1]
            g == config.General
            h == config'.General
        IN  /\ a.api_key = None => config'.OpenAI.api_key = config.OpenAI.api_key
            /\ ~a.api => h.use_api = g.use_api
            /\ ~a.disable_mic => h.disable_mic = g.disable_mic
            /\ a.mic_device_index = None => h.mic_device_index = g.mic_device_index
            /\ ~a.disable_speaker => h.disable_speaker = g.disable_speaker
            /\ a.speaker_device_index = None =>
                   h.speaker_device_index = g.speaker_device_index
            /\ g.use_api => h.use_api
            /\ g.disable_mic => h.disable_mic
            /\ g.disable_speaker => h.disable_speaker
            /\ DOMAIN config' = DOMAIN config
            /\ argv = NoArgv => SameButModel(config', config)]_vars

\* after a merge with no field set, flags that were true and indices that
\* were set in the store are still there
C6_Witness ==
    /\ step > 2
    /\ argv = NoArgv
    /\ config.OpenAI.api_key = "K0"
    /\ config.General.use_api /\ config.General.disable_mic
    /\ config.General.disable_speaker
    /\ config.General.mic_device_index = 1
    /\ config.General.speaker_device_index = 0

SetDeviceCalled(recorder) ==
    \E i \in 1..Len(set_device_calls) : set_device_calls[i][1] = recorder

\* C7: after update_audio_devices, set_device was called on the microphone
\* recorder exactly if the microphone is enabled and its index is set, and on
\* the speaker recorder exactly if the speaker is enabled and its index is set.
C7_BindingGuards ==
    step > 4 =>
        LET g == config.General
        IN  /\ SetDeviceCalled("user_audio_recorder")
                  <=> (~g.disable_mic /\ g.mic_device_index # -1)
            /\ SetDeviceCalled("speaker_audio_recorder")
                  <=> (~g.disable_speaker /\ g.speaker_device_index # -1)

\* C10: after update_audio_devices with both devices enabled and two
\* different indices set, the microphone recorder is bound to the microphone
\* index and the speaker index was never bound on it.
C10_MicrophoneKeepsItsDevice ==
    LET g == config.General
    IN  (/\ step > 4
         /\ ~g.disable_mic /\ ~g.disable_speaker
         /\ g.mic_device_index # -1 /\ g.speaker_device_index # -1
         /\ g.mic_device_index # g.speaker_device_index) =>
            /\ BoundDevice("user_audio_recorder") = Some(g.mic_device_index)
            /\ \A i \in 1..Len(set_device_calls) :
                  set_device_calls[i] # <<"user_audio_recorder", g.speaker_device_index>>

====
